---- MODULE Spec2Model ----
(***************************************************************************)
(* InsarToolkit: the geographic transform helpers of                       *)
(* MetaFormatting/InsarFormatting.py and the image statistics of the       *)
(* MapShow.py main script.                                                 *)
(*                                                                         *)
(* Numbers are exact: coordinates, steps and samples are integers (a       *)
(* common unit of the floats the program holds), percentiles are kept in   *)
(* hundredths of that unit and histogram edges as fractions.               *)
(***************************************************************************)
EXTENDS Integers, Sequences, FiniteSets, TLC

\* ------------------------------------------------------------------------
\* Bounds of the model
\* ------------------------------------------------------------------------
\* origin of a transform: 0..MaxOrigin
MaxOrigin == 1
\* pixel steps dx, dy: -MaxStep..MaxStep (zero included)
MaxStep == 2
\* pixel indices px, py: -MaxPx..MaxPx
MaxPx == 1
\* raster shape handed to the extent computations: 1..MaxDim each way
MaxDim == 2

\* ------------------------------------------------------------------------
\* Arithmetic helpers
\* ------------------------------------------------------------------------
Abs(a) == IF a < 0 THEN -a ELSE a

Min2(a, b) == IF a <= b THEN a ELSE b

Max2(a, b) == IF a >= b THEN a ELSE b

\* int(a/b) of Python for b # 0: true division, then truncation toward zero
IntOfQuotient(a, b) ==
    LET q == Abs(a) \div Abs(b)
    IN  IF (a < 0) # (b < 0) THEN -q ELSE q

\* ------------------------------------------------------------------------
\* Geographic transform (InsarFormatting.py, MapShow.py lines 57-61)
\* ------------------------------------------------------------------------
VARIABLES
    tnsf,        \* the 6-parameter transform <<left, dx, 0, top, 0, dy>>
    coords,      \* the last px2coords call: its arguments and its result
    result,      \* the last call of any other transform helper
    pc,          \* the stage of the main script that runs next
    inpt,        \* the command-line options, each from the stage that first reads it
    datatype,    \* type(img[0,0]) of the band as loaded
    img,         \* the image array; with mask, the masked array of line 93
    imgMag,      \* amplitude of a complex image
    background,  \* the background value
    mask,        \* img==background
    imgArray,    \* the statistics population
    vmin,        \* lower display bound, in hundredths
    vmax,        \* upper display bound, in hundredths
    Hvals,       \* histogram counts
    Hedges,      \* histogram edges, each a fraction <<numerator, denominator>>
    error        \* the exception that ended the run

geoVars == <<tnsf, coords, result>>

statVars == <<pc, inpt, datatype, img, imgMag, background, mask, imgArray,
              vmin, vmax, Hvals, Hedges, error>>

vars == <<tnsf, coords, result, pc, inpt, datatype, img, imgMag, background,
          mask, imgArray, vmin, vmax, Hvals, Hedges, error>>

Steps == -MaxStep..MaxStep
Origins == 0..MaxOrigin
Pixels == -MaxPx..MaxPx
Dims == 1..MaxDim
\* every map coordinate px2coords can return within the bounds
MapCoords == (-(MaxPx * MaxStep))..(MaxOrigin + MaxPx * MaxStep)

Transforms ==
    {<<left, dx, 0, top, 0, dy>> : left \in Origins, dx \in Steps,
                                   top \in Origins, dy \in Steps}

NoCall == [op |-> "none"]

\* px2coords(tnsf,px,py): tnsf[0], tnsf[1], tnsf[3], tnsf[5] are entries 1, 2, 4, 6
px2coords(t, px, py) ==
    LET left == t[1]
        dx == t[2]
        top == t[4]
        dy == t[6]
        xcoord == left + px * dx
        ycoord == top + py * dy
    IN  <<xcoord, ycoord>>

\* coords2px(tnsf,lon,lat): the division of line 35 runs before that of line 36
coords2px(t, lon, lat) ==
    LET left == t[1]
        dx == t[2]
        top == t[4]
        dy == t[6]
    IN  IF dx = 0 THEN [err |-> "ZeroDivisionError", px |-> 0, py |-> 0]
        ELSE IF dy = 0 THEN [err |-> "ZeroDivisionError", px |-> 0, py |-> 0]
        ELSE [err |-> "none",
              px |-> IntOfQuotient(lon - left, dx),
              py |-> IntOfQuotient(top - lat, dy)]

\* transform2extent(tnsf,M,N): the tuple (left,right,bottom,top)
transform2extent(t, M, N) ==
    LET left == t[1]
        dx == t[2]
        right == left + dx * N
        top == t[4]
        dy == t[6]
        bottom == top + dy * M
    IN  <<left, right, bottom, top>>

\* GDALtransform.__init__(transform=..., shape=...): the fields it sets
GDALtransform(t, shape) ==
    LET m == shape[1]
        n == shape[2]
        xstart == t[1]
        ystart == t[4]
        ystep == t[6]
        xstep == t[2]
        xend == xstart + shape[2] * xstep
        yend == ystart + shape[1] * ystep
        ymin == Min2(yend, ystart)
        ymax == Max2(yend, ystart)
        xmin == Min2(xend, xstart)
        xmax == Max2(xend, xstart)
    IN  [m |-> m, n |-> n, xstart |-> xstart, ystart |-> ystart,
         xstep |-> xstep, ystep |-> ystep, xend |-> xend, yend |-> yend,
         extent |-> <<xmin, xmax, ymin, ymax>>,
         bounds |-> <<xmin, ymin, xmax, ymax>>]

\* MapShow.py lines 57-61: the extent the main script builds
MapShowExtent(t, M, N) ==
    LET left == t[1]
        dx == t[2]
        right == left + N * dx
        top == t[4]
        dy == t[6]
        bottom == top + M * dy
    IN  <<left, right, bottom, top>>

GeoInit ==
    /\ tnsf \in Transforms
    /\ coords = NoCall
    /\ result = NoCall

CallPx2coords ==
    \E px \in Pixels, py \in Pixels :
        /\ coords' = [op |-> "px2coords", px |-> px, py |-> py,
                      xy |-> px2coords(tnsf, px, py)]
        /\ UNCHANGED <<tnsf, result>>
        /\ UNCHANGED statVars

CallCoords2px ==
    \E lon \in MapCoords, lat \in MapCoords :
        /\ result' = [op |-> "coords2px", lon |-> lon, lat |-> lat,
                      out |-> coords2px(tnsf, lon, lat)]
        /\ UNCHANGED <<tnsf, coords>>
        /\ UNCHANGED statVars

CallTransform2extent ==
    \E M \in Dims, N \in Dims :
        /\ result' = [op |-> "transform2extent", M |-> M, N |-> N,
                      extent |-> transform2extent(tnsf, M, N)]
        /\ UNCHANGED <<tnsf, coords>>
        /\ UNCHANGED statVars

CallGDALtransform ==
    \E M \in Dims, N \in Dims :
        /\ result' = [op |-> "GDALtransform", M |-> M, N |-> N,
                      extent |-> GDALtransform(tnsf, <<M, N>>).extent]
        /\ UNCHANGED <<tnsf, coords>>
        /\ UNCHANGED statVars

CallMapShowExtent ==
    \E M \in Dims, N \in Dims :
        /\ result' = [op |-> "MapShow", M |-> M, N |-> N,
                      extent |-> MapShowExtent(tnsf, M, N)]
        /\ UNCHANGED <<tnsf, coords>>
        /\ UNCHANGED statVars


\* ------------------------------------------------------------------------
\* Image statistics (MapShow.py lines 72-124)
\* ------------------------------------------------------------------------
\* A sample is a pair <<re, im>>; a real sample has im = 0.  A phase is kept
\* in eighths of a turn (pi/4), an amplitude sqrt(r) by its radicand r.

Re(z) == z[1]

Im(z) == z[2]

\* np.angle on the samples of the model, in eighths of a turn; angle(0) = 0
Angle(z) ==
    IF Im(z) = 0 THEN (IF Re(z) >= 0 THEN 0 ELSE 4)
    ELSE IF Re(z) = 0 THEN (IF Im(z) > 0 THEN 2 ELSE -2)
    ELSE IF Re(z) > 0 THEN (IF Im(z) > 0 THEN 1 ELSE -1)
    ELSE (IF Im(z) > 0 THEN 3 ELSE -3)

\* np.abs: the radicand of the amplitude
Radicand(z) == Re(z) * Re(z) + Im(z) * Im(z)

PhaseSample(z) == <<Angle(z), 0>>

\* np.abs(img)
Amplitudes(a) == [i \in DOMAIN a |-> [j \in DOMAIN a[i] |-> Radicand(a[i][j])]]

\* np.angle(img)
Phases(a) == [i \in DOMAIN a |-> [j \in DOMAIN a[i] |-> PhaseSample(a[i][j])]]

\* numpy's order on samples: by real part, then by imaginary part
SampleLeq(a, b) == Re(a) < Re(b) \/ (Re(a) = Re(b) /\ Im(a) <= Im(b))

RECURSIVE Concat(_)
Concat(rows) == IF rows = <<>> THEN <<>> ELSE Head(rows) \o Concat(Tail(rows))

\* a.reshape(-1,1): the rows one after the other
Flatten(a) == Concat(a)

Column(a, j) == [i \in DOMAIN a |-> a[i][j]]

\* np.concatenate([img[0,:],img[-1,:],img[:,0],img[:,-1]])
EdgeValues(a) ==
    a[1] \o a[Len(a)] \o Column(a, 1) \o Column(a, Len(a[1]))

Count(v, s) == Cardinality({i \in DOMAIN s : s[i] = v})

Range(s) == {s[i] : i \in DOMAIN s}

\* scipy.stats.mode(s).mode[0]: the most common value, the smallest of them on a tie
Mode(s) ==
    CHOOSE v \in Range(s) :
        /\ \A w \in Range(s) : Count(w, s) <= Count(v, s)
        /\ \A w \in Range(s) : Count(w, s) = Count(v, s) => SampleLeq(v, w)

NoBackground == [kind |-> "none", val |-> <<0, 0>>]

\* lines 83-89: the mode of the edges, or the option's text as it stands
ResolvedBackground(opt, a) ==
    IF opt.kind = "auto" THEN [kind |-> "num", val |-> Mode(EdgeValues(a))]
    ELSE IF opt.kind = "literal" THEN [kind |-> "str", val |-> opt.val]
    ELSE NoBackground

\* img==background, element by element; a number never equals a text
EqualMask(a, bg) ==
    [i \in DOMAIN a |-> [j \in DOMAIN a[i] |-> bg.kind = "num" /\ a[i][j] = bg.val]]

NoMask == [kind |-> "none", arr |-> <<>>]

RECURSIVE SelectUnmasked(_, _)
SelectUnmasked(s, m) ==
    IF s = <<>> THEN <<>>
    ELSE (IF Head(m) THEN <<>> ELSE <<Head(s)>>) \o SelectUnmasked(Tail(s), Tail(m))

\* the truth value Python gives an optional float: None and 0.0 are false
Truthy(opt) == opt # <<>> /\ opt[1] # 0

\* lines 112-115
IgnoreOutliers(s, lo, hi) ==
    LET a == IF Truthy(lo)
             THEN SelectSeq(s, LAMBDA x : SampleLeq(<<lo[1], 0>>, x))
             ELSE s
    IN  IF Truthy(hi)
        THEN SelectSeq(a, LAMBDA x : SampleLeq(x, <<hi[1], 0>>))
        ELSE a

MinOf(S) == CHOOSE x \in S : \A y \in S : x <= y

MaxOf(S) == CHOOSE x \in S : \A y \in S : x >= y

RemoveAt(s, i) == SubSeq(s, 1, i - 1) \o SubSeq(s, i + 1, Len(s))

RECURSIVE SortInts(_)
SortInts(s) ==
    IF s = <<>> THEN <<>>
    ELSE LET m == MinOf(Range(s))
             i == CHOOSE k \in DOMAIN s : s[k] = m
         IN  <<m>> \o SortInts(RemoveAt(s, i))

Reals(s) == [i \in DOMAIN s |-> Re(s[i])]

\* np.percentile(s, q), linear interpolation, for non-empty s: 100 times its value
Percentile(s, q) ==
    LET a == SortInts(Reals(s))
        n == Len(a)
        pos == (n - 1) * q
        lo == pos \div 100
        rem == pos % 100
        below == a[lo + 1]
        above == a[Min2(lo + 2, n)]
    IN  100 * below + rem * (above - below)

Unset == [kind |-> "unset", val |-> 0]

NaN == [kind |-> "nan", val |-> 0]

Num(v) == [kind |-> "num", val |-> v]

\* the percentiles of the whole image instead of the population
PercentilesOfImage(s, lo, hi) ==
    <<Num(Percentile(Flatten(img), lo)), Num(Percentile(Flatten(img), hi))>>

\* np.percentile(imgArray,(inpt.pctmin,inpt.pctmax)) for non-empty imgArray
Percentiles(s, lo, hi) == <<Num(Percentile(s, lo)), Num(Percentile(s, hi))>>

\* imgArray>=vmin and imgArray<=vmax; a comparison with nan is false
Refiltered(s, lo, hi) ==
    SelectSeq(s, LAMBDA x : /\ lo.kind = "num" /\ hi.kind = "num"
                            /\ 100 * Re(x) >= lo.val
                            /\ 100 * Re(x) <= hi.val)

\* np.histogram's range, doubled: (0,1) for no samples, widened by a half
\* each way when all samples are equal
HistRange2(s) ==
    IF s = <<>> THEN <<0, 2>>
    ELSE LET lo == MinOf(Range(Reals(s)))
             hi == MaxOf(Range(Reals(s)))
         IN  IF lo = hi THEN <<2 * lo - 1, 2 * hi + 1>> ELSE <<2 * lo, 2 * hi>>

\* np.linspace(first, last, nbins+1): edge k as a fraction over 2*nbins
HistEdges(s, nbins) ==
    LET r == HistRange2(s)
    IN  [k \in 1..(nbins + 1) |->
            <<nbins * r[1] + (k - 1) * (r[2] - r[1]), 2 * nbins>>]

\* every bin half-open: a sample on the last edge falls in no bin
BinOfHalfOpen(x, edges, nbins) ==
    IF edges[nbins + 1][1] <= 2 * nbins * x THEN 0
    ELSE MaxOf({b \in 1..nbins : edges[b][1] <= 2 * nbins * x})

\* the bin of x: half-open bins, the last one closed
BinOf(x, edges, nbins) ==
    MaxOf({b \in 1..nbins : edges[b][1] <= 2 * nbins * x})

HistCounts(s, nbins) ==
    LET edges == HistEdges(s, nbins)
    IN  [b \in 1..nbins |->
            Cardinality({i \in DOMAIN s : BinOf(Re(s[i]), edges, nbins) = b})]


\* ------------------------------------------------------------------------
\* Inputs of a run
\* ------------------------------------------------------------------------
\* raster bands of at most MaxCells samples
MaxCells == 4
\* --nbins: 0..MaxBins
MaxBins == 2

RealValues == {-1, 0, 1}
RealSamples == {<<v, 0>> : v \in RealValues}
\* complex samples whose phase is a whole number of eighths of a turn
ComplexSamples == {<<2, 0>>, <<0, -1>>}
DataTypes == {"float32", "complex64", "complex128"}
SamplesOf(t) == IF t = "float32" THEN RealSamples ELSE ComplexSamples

Shapes == {sh \in (1..MaxCells) \X (1..MaxCells) : sh[1] * sh[2] <= MaxCells}

Arrays(S) == UNION {[1..sh[1] -> [1..sh[2] -> S]] : sh \in Shapes}

\* --background: absent, 'auto', or the text of a number
BackgroundOptions ==
    {[kind |-> "none", val |-> <<0, 0>>], [kind |-> "auto", val |-> <<0, 0>>]}
        \cup {[kind |-> "literal", val |-> <<v, 0>>] : v \in {0, 1}}
\* --vmin, --vmax: absent (<<>>) or a float
BoundOptions == {<<>>} \cup {<<v>> : v \in {-1, 0, 1}}
\* --pctmin, --pctmax
PercentOptions == {0, 50, 100}
BinOptions == 0..MaxBins

\* ------------------------------------------------------------------------
\* The main script, stage by stage
\* ------------------------------------------------------------------------
StatInit ==
    /\ pc = "decompose"
    /\ inpt \in [background : BackgroundOptions]
    /\ datatype \in DataTypes
    /\ img \in Arrays(SamplesOf(datatype))
    /\ imgMag = <<>>
    /\ background = NoBackground
    /\ mask = NoMask
    /\ imgArray = <<>>
    /\ vmin = Unset
    /\ vmax = Unset
    /\ Hvals = <<>>
    /\ Hedges = <<>>
    /\ error = "none"

\* lines 76-80
Decompose ==
    /\ UNCHANGED geoVars
    /\ pc = "decompose"
    /\ IF datatype = "complex64"
       THEN /\ imgMag' = Amplitudes(img)
            /\ img' = Phases(img)
       ELSE UNCHANGED <<img, imgMag>>
    /\ pc' = "background"
    /\ UNCHANGED <<inpt, datatype, background, mask, imgArray, vmin, vmax,
                   Hvals, Hedges, error>>

\* lines 82-89.  mode(...).mode is an array or, by the scipy in use, a
\* single value, which [0] cannot index.
BackgroundValue ==
    /\ UNCHANGED geoVars
    /\ pc = "background"
    /\ \/ /\ background' = ResolvedBackground(inpt.background, img)
          /\ pc' = "mask"
          /\ error' = error
       \/ /\ inpt.background.kind = "auto"
          /\ background' = background
          /\ pc' = "error"
          /\ error' = "IndexError"
    /\ UNCHANGED <<inpt, datatype, img, imgMag, mask, imgArray, vmin, vmax,
                   Hvals, Hedges>>

\* lines 91-93.  Comparing the array with a text gives, by the numpy in use,
\* an array of False or the single value False.
MaskBackground ==
    /\ UNCHANGED geoVars
    /\ pc = "mask"
    /\ \/ /\ inpt.background.kind = "none"
          /\ mask' = mask
       \/ /\ inpt.background.kind # "none"
          /\ mask' = [kind |-> "array", arr |-> EqualMask(img, background)]
       \/ /\ background.kind = "str"
          /\ mask' = [kind |-> "scalar", arr |-> <<>>]
    /\ pc' = "population"
    /\ UNCHANGED <<inpt, datatype, img, imgMag, background, imgArray, vmin,
                   vmax, Hvals, Hedges, error>>

\* lines 104-109; False.reshape of line 108 raises
IgnoreBackground ==
    /\ UNCHANGED geoVars
    /\ pc = "population"
    /\ \/ /\ mask.kind = "none"
          /\ imgArray' = Flatten(img)
          /\ pc' = "outliers"
          /\ error' = error
       \/ /\ mask.kind = "array"
          /\ imgArray' = SelectUnmasked(Flatten(img), Flatten(mask.arr))
          /\ pc' = "outliers"
          /\ error' = error
       \/ /\ mask.kind = "scalar"
          /\ imgArray' = Flatten(img)
          /\ pc' = "error"
          /\ error' = "AttributeError"
    /\ UNCHANGED <<inpt, datatype, img, imgMag, background, mask, vmin, vmax,
                   Hvals, Hedges>>

\* lines 111-115
Outliers ==
    /\ UNCHANGED geoVars
    /\ pc = "outliers"
    /\ \E lo \in BoundOptions, hi \in BoundOptions :
          /\ inpt' = inpt @@ [vmin |-> lo, vmax |-> hi]
          /\ imgArray' = IgnoreOutliers(imgArray, lo, hi)
    /\ pc' = "percentile"
    /\ UNCHANGED <<datatype, img, imgMag, background, mask, vmin, vmax,
                   Hvals, Hedges, error>>

\* line 118.  np.percentile takes real numbers only; of no samples it
\* raises or gives nan, by the numpy in use.
Percentages ==
    /\ UNCHANGED geoVars
    /\ pc = "percentile"
    /\ \E lo \in PercentOptions, hi \in PercentOptions :
          /\ inpt' = inpt @@ [pctmin |-> lo, pctmax |-> hi]
          /\ \/ /\ datatype = "complex128"
                /\ pc' = "error"
                /\ error' = "TypeError"
                /\ UNCHANGED <<vmin, vmax>>
             \/ /\ datatype # "complex128"
                /\ imgArray = <<>>
                /\ pc' = "error"
                /\ error' = "IndexError"
                /\ UNCHANGED <<vmin, vmax>>
             \/ /\ datatype # "complex128"
                /\ imgArray = <<>>
                /\ pc' = "refilter"
                /\ error' = error
                /\ vmin' = NaN
                /\ vmax' = NaN
             \/ /\ datatype # "complex128"
                /\ imgArray # <<>>
                /\ pc' = "refilter"
                /\ error' = error
                /\ vmin' = Percentiles(imgArray, lo, hi)[1]
                /\ vmax' = Percentiles(imgArray, lo, hi)[2]
    /\ UNCHANGED <<datatype, img, imgMag, background, mask, imgArray, Hvals,
                   Hedges>>

\* lines 119-120
Refilter ==
    /\ UNCHANGED geoVars
    /\ pc = "refilter"
    /\ imgArray' = Refiltered(imgArray, vmin, vmax)
    /\ pc' = "histogram"
    /\ UNCHANGED <<inpt, datatype, img, imgMag, background, mask, vmin, vmax,
                   Hvals, Hedges, error>>

\* line 123; np.histogram needs at least one bin
Histogram ==
    /\ UNCHANGED geoVars
    /\ pc = "histogram"
    /\ \E nbins \in BinOptions :
          /\ inpt' = inpt @@ [nbins |-> nbins]
          /\ IF nbins < 1
             THEN /\ pc' = "error"
                  /\ error' = "ValueError"
                  /\ UNCHANGED <<Hvals, Hedges>>
             ELSE /\ pc' = "done"
                  /\ error' = error
                  /\ Hvals' = HistCounts(imgArray, nbins)
                  /\ Hedges' = HistEdges(imgArray, nbins)
    /\ UNCHANGED <<datatype, img, imgMag, background, mask, imgArray, vmin,
                   vmax>>

\* ------------------------------------------------------------------------
\* Specifications
\* ------------------------------------------------------------------------
\* a run of the main script on a north-up raster
Init ==
    /\ StatInit
    /\ tnsf = <<0, 1, 0, 0, 0, -1>>
    /\ coords = NoCall
    /\ result = NoCall

Next ==
    \/ Decompose
    \/ BackgroundValue
    \/ MaskBackground
    \/ IgnoreBackground
    \/ Outliers
    \/ Percentages
    \/ Refilter
    \/ Histogram

Spec == Init /\ [][Next]_vars

\* calls of the transform helpers, no image loaded
InitGeo ==
    /\ GeoInit
    /\ pc = "decompose"
    /\ inpt = [background |-> [kind |-> "none", val |-> <<0, 0>>]]
    /\ datatype = "float32"
    /\ img = <<<<<<0, 0>>>>>>
    /\ imgMag = <<>>
    /\ background = NoBackground
    /\ mask = NoMask
    /\ imgArray = <<>>
    /\ vmin = Unset
    /\ vmax = Unset
    /\ Hvals = <<>>
    /\ Hedges = <<>>
    /\ error = "none"

NextGeo ==
    \/ CallPx2coords
    \/ CallCoords2px
    \/ CallTransform2extent
    \/ CallGDALtransform
    \/ CallMapShowExtent

SpecGeo == InitGeo /\ [][NextGeo]_vars


\* ------------------------------------------------------------------------
\* Claims about the transform helpers (checked under SpecGeo)
\* ------------------------------------------------------------------------
NonzeroSteps == tnsf[2] # 0 /\ tnsf[6] # 0

\* coords2px was last called on the very coordinates px2coords returned
RoundTripCall ==
    /\ coords.op = "px2coords"
    /\ result.op = "coords2px"
    /\ result.lon = coords.xy[1]
    /\ result.lat = coords.xy[2]

\* C1: with nonzero steps of either sign, coords2px applied to the result of
\* px2coords on integers (px, py) returns exactly (px, py).
C1_RoundTrip ==
    (NonzeroSteps /\ RoundTripCall) =>
        /\ result.out.err = "none"
        /\ result.out.px = coords.px
        /\ result.out.py = coords.py

ExtentCall == result.op \in {"transform2extent", "GDALtransform", "MapShow"}

\* C2: every extent computed from a transform and a raster shape, by
\* GDALtransform, by transform2extent and by the MapShow main script, has
\* xmin <= xmax and ymin <= ymax (entries 1 <= 2 and 3 <= 4), whatever the
\* signs of the steps.
C2_ExtentOrdered ==
    ExtentCall =>
        /\ result.extent[1] <= result.extent[2]
        /\ result.extent[3] <= result.extent[4]

\* C9: with a zero pixelWidth or pixelHeight no operation returns a normal
\* result, and coords2px ends in InvalidTransformError.
C9_InvalidTransform ==
    ~NonzeroSteps =>
        /\ coords.op = "none"
        /\ result.op \in {"none", "coords2px"}
        /\ result.op = "coords2px" => result.out.err = "InvalidTransformError"

\* ------------------------------------------------------------------------
\* Claims about the image statistics (checked under Spec)
\* ------------------------------------------------------------------------
\* the population has been taken from the array (lines 104-109 have run)
PopulationBuilt == pc \in {"outliers", "percentile", "refilter", "histogram", "done"}

\* the absolute bounds have been applied (lines 112-115 have run)
OutliersIgnored == pc \in {"percentile", "refilter", "histogram", "done"}

\* C3: once a background value is resolved, from a literal or from the
\* edges, no sample equal to it is in the statistics population.
C3_BackgroundExcluded ==
    (PopulationBuilt /\ background.kind # "none") =>
        \A i \in DOMAIN imgArray : imgArray[i] # background.val

\* C4: after the absolute bounds, no sample of the population is strictly
\* below a given --vmin (0 and negative values included) nor strictly above
\* a given --vmax.
C4_AbsoluteBounds ==
    OutliersIgnored =>
        /\ inpt.vmin # <<>> =>
              \A i \in DOMAIN imgArray : Re(imgArray[i]) >= inpt.vmin[1]
        /\ inpt.vmax # <<>> =>
              \A i \in DOMAIN imgArray : Re(imgArray[i]) <= inpt.vmax[1]

\* C5: the display range computed from a non-empty population has
\* vmin <= vmax, whatever --pctmin and --pctmax are.
C5_RangeOrdered ==
    (vmin.kind = "num" /\ vmax.kind = "num") => vmin.val <= vmax.val

\* the percentile stage has just run, on the population imgArray still holds
PercentileStageRan == "pctmin" \in DOMAIN inpt /\ "nbins" \notin DOMAIN inpt

\* C8: when masking and the absolute bounds leave no sample, the run ends
\* in EmptyPopulationError at the percentile stage and yields no vmin, vmax.
C8_EmptyPopulationError ==
    (PercentileStageRan /\ pc \in {"refilter", "error"} /\ imgArray = <<>>
        /\ datatype # "complex128") =>
        /\ pc = "error"
        /\ error = "EmptyPopulationError"
        /\ vmin = Unset
        /\ vmax = Unset

\* the display array: the phases when the band is complex (img holds them
\* already for a complex64 band)
PhaseArray == IF datatype = "complex128" THEN Phases(img) ELSE img

\* the places of the first row, last row, first column and last column
EdgePlaces(a) ==
    ({"first row", "last row"} \X DOMAIN a[1])
        \cup ({"first column", "last column"} \X DOMAIN a)

EdgeSample(a, e) ==
    IF e[1] = "first row" THEN a[1][e[2]]
    ELSE IF e[1] = "last row" THEN a[Len(a)][e[2]]
    ELSE IF e[1] = "first column" THEN a[e[2]][1]
    ELSE a[e[2]][Len(a[1])]

EdgeCount(a, v) == Cardinality({e \in EdgePlaces(a) : EdgeSample(a, e) = v})

\* C7: with --background auto the resolved background is a most frequent
\* value among the samples of the four edges of the display array, the
\* phase array when the band is complex.
C7_AutoBackground ==
    (inpt.background.kind = "auto" /\ background.kind = "num") =>
        /\ EdgeCount(PhaseArray, background.val) > 0
        /\ \A e \in EdgePlaces(PhaseArray) :
              EdgeCount(PhaseArray, EdgeSample(PhaseArray, e))
                  <= EdgeCount(PhaseArray, background.val)

RECURSIVE SumSeq(_)
SumSeq(s) == IF s = <<>> THEN 0 ELSE Head(s) + SumSeq(Tail(s))

\* C6: when the histogram is done, its counts add up to the number of
\* samples of the final population, and it has one more edge than counts.
C6_HistogramTotals ==
    pc = "done" =>
        /\ SumSeq(Hvals) = Len(imgArray)
        /\ Len(Hedges) = Len(Hvals) + 1
        /\ Len(Hvals) = inpt.nbins

\* a histogram of several samples that fall in different bins
C6_Witness ==
    /\ pc = "done"
    /\ Len(imgArray) >= 3
    /\ inpt.nbins = 2
    /\ Hvals[1] > 0
    /\ Hvals[2] > 0

RECURSIVE IsSubSeq(_, _)
IsSubSeq(a, b) ==
    IF a = <<>> THEN TRUE
    ELSE IF b = <<>> THEN FALSE
    ELSE IF Head(a) = Head(b) THEN IsSubSeq(Tail(a), Tail(b))
    ELSE IsSubSeq(a, Tail(b))

StageAfter ==
    [decompose |-> "background", background |-> "mask", mask |-> "population",
     population |-> "outliers", outliers |-> "percentile",
     percentile |-> "refilter", refilter |-> "histogram", histogram |-> "done"]

\* the k-th smallest real part of s, k counted from 0
OrderStatistic(s, k) ==
    CHOOSE x \in Range(Reals(s)) :
        /\ Cardinality({i \in DOMAIN s : Re(s[i]) < x}) <= k
        /\ Cardinality({i \in DOMAIN s : Re(s[i]) <= x}) > k

\* v is 100 times the q-th percentile of s, by linear interpolation
\* between the two nearest order statistics
IsPercentile(v, s, q) ==
    LET pos == (Len(s) - 1) * q
        lo == pos \div 100
        hi == IF pos % 100 = 0 THEN lo ELSE lo + 1
    IN  v = 100 * OrderStatistic(s, lo)
              + (pos % 100) * (OrderStatistic(s, hi) - OrderStatistic(s, lo))

WithinRange(x) ==
    /\ vmin.kind = "num"
    /\ vmax.kind = "num"
    /\ vmin.val <= 100 * Re(x)
    /\ 100 * Re(x) <= vmax.val

\* what one step of the main script may do to the stage and the population
C10_StageStep ==
    /\ pc' # pc => pc # "done" /\ pc # "error"
    /\ pc' # pc => pc' \in {StageAfter[pc], "error"}
    /\ pc = "population" /\ pc' = "outliers" =>
          IsSubSeq(imgArray', Flatten(img))
    /\ pc \in {"outliers", "percentile", "refilter", "histogram"} =>
          IsSubSeq(imgArray', imgArray)
    /\ pc \in {"percentile", "histogram"} => imgArray' = imgArray
    /\ pc = "percentile" /\ pc' = "refilter" /\ imgArray # <<>> =>
          /\ vmin'.kind = "num"
          /\ vmax'.kind = "num"
          /\ IsPercentile(vmin'.val, imgArray, inpt'.pctmin)
          /\ IsPercentile(vmax'.val, imgArray, inpt'.pctmax)
    /\ pc \in {"refilter", "histogram"} => vmin' = vmin /\ vmax' = vmax
    /\ pc = "refilter" => imgArray' = SelectSeq(imgArray, WithinRange)

\* C10: the stages run in the order masking, absolute bounds, percentiles,
\* re-filter, histogram; each population is a sub-collection of the one
\* before; vmin and vmax are the pctmin and pctmax percentiles of the
\* samples left by masking and the absolute bounds; and the final
\* population is exactly those of them within [vmin, vmax].
C10_StagesInOrder == [][C10_StageStep]_vars

\* a finished run in which masking, the percentiles and the re-filter each
\* narrowed the population
C10_Witness ==
    /\ pc = "done"
    /\ mask.kind = "array"
    /\ Len(imgArray) >= 1
    /\ Len(imgArray) + 2 <= Len(Flatten(img))
    /\ inpt.pctmin = 50
    /\ inpt.pctmax = 100
    /\ vmin.kind = "num"
    /\ vmin.val % 100 # 0
    /\ \E i \in DOMAIN Flatten(img) :
          /\ ~Flatten(mask.arr)[i]
          /\ 100 * Re(Flatten(img)[i]) < vmin.val

====
